---- MODULE Spec2Model ----
(***************************************************************************)
(* Reconciliation loop of azure-dns-updater-go (src/main.go).              *)
(*                                                                         *)
(* The model follows DNSUpdater.Run / DNSUpdater.checkAndUpdate            *)
(* (src/main.go:378-424) together with the signal goroutine of main        *)
(* (src/main.go:312-330).  Every blocking network call (the resolve, each  *)
(* record-set update) is one step of the Run goroutine, so that the signal *)
(* goroutine and the ticker interleave with a cycle exactly where the Go   *)
(* scheduler lets them.                                                    *)
(***************************************************************************)
EXTENDS Integers, Sequences, FiniteSets, TLC

\* ------------------------------------------------------------------ bounds
MaxCycles == 3      \* reconciliation cycles explored per run
MaxRecords == 2     \* longest AzureDNSRecords list explored

\* ------------------------------------------------------------ value spaces
\* Bodies the ifconfig.me lookup can return with status 200: two addresses
\* and the empty body (resolvePublicIP returns string(body) unchecked).
IPs == {"", "1.1.1.1", "2.2.2.2"}
Names == {"home", "vpn"}

\* Poll intervals explored, as time.ParseDuration can return them: just
\* below and above the 60 s floor, with a fraction of a second, and around
\* 2^24 s, where float64 has fewer than nine decimal digits
\* left for the fraction.  time.NewTicker panics on an interval that is not
\* positive (main.go:379), so no cycle ever runs with one.
Intervals ==
    { [sec |-> 59,       nsec |-> 999999999],
      [sec |-> 90,       nsec |-> 500000000],
      [sec |-> 16777215, nsec |-> 999999999],
      [sec |-> 16777216, nsec |-> 999999999] }

RECURSIVE SeqsUpTo(_)
SeqsUpTo(n) ==
    IF n = 0 THEN {<<>>}
    ELSE LET S == SeqsUpTo(n - 1)
         IN  S \cup {Append(s, x) : s \in {t \in S : Len(t) = n - 1}, x \in Names}

\* loadConfig: the comma separated AZURE_DNS_RECORDS, trimmed, blanks
\* dropped; the list may be empty and may repeat a name.
RecordLists == SeqsUpTo(MaxRecords)

VARIABLES
    records,        \* u.config.AzureDNSRecords
    interval,       \* u.config.Interval, a time.Duration: whole seconds and
                    \* the remaining nanoseconds
    stable,         \* the environment has settled: the one address the
                    \* resolver returns from now on, every call succeeding
                    \* ("" while any outcome is still possible)
    prevIP,         \* u.prevIP
    pc,             \* position of the Run goroutine
    ip,             \* checkAndUpdate's local ip
    idx,            \* position of the range loop over AzureDNSRecords (1-based)
    cancelled,      \* ctx.Done() is closed
    tickPending,    \* a tick is buffered in ticker.C (capacity 1)
    retVal,         \* what Run returned: "none" while running, "nil", "err"
    exitCode,       \* process exit code: -1 while running
    provider,       \* the A record each record set holds at the DNS provider
    \* ---- history of the run, read only by the properties
    cycle,          \* number of checkAndUpdate calls started
    trigger,        \* what started the current cycle: "none", "initial", "tick"
    startedCancelled, \* ctx was already cancelled when the current cycle started
    preIP,          \* prevIP when the current cycle started
    resolved,       \* resolve outcome of the current cycle: "none", "ok", "err"
    calls,          \* updater calls of the current cycle, in order
    last,           \* the previous cycle: resolve outcome, address, any update failed
    lastWrite,      \* updater calls of the most recent cycle that made any
    nOk,            \* number of cycles whose resolve succeeded
    ttls,           \* TTL sent with each updater call of the current cycle
    assigns         \* assignments to prevIP made by the current cycle, in
                    \* order: the value stored and the number of updater
                    \* calls that had returned by then

vars == <<records, interval, stable, prevIP, pc, ip, idx, cancelled, tickPending, retVal,
          exitCode, provider, cycle, trigger, startedCancelled, preIP,
          resolved, calls, last, lastWrite, nOk, ttls, assigns>>

hist == <<cycle, trigger, startedCancelled, preIP, resolved, calls, last,
          lastWrite, nOk, ttls, assigns>>

\* What the zone holds when the process starts.  The program never reads
\* the provider, so one stale value stands for all: the resolver may return
\* this very address on the first cycle, or another one.
StaleProvider == [n \in Names |-> "1.1.1.1"]

\* ------------------------------------------------------------ helpers
AnyFailed(cs) == \E i \in 1..Len(cs) : ~cs[i].ok

\* One updater invocation as seen at the client.Update boundary.
Call(rs, a, ok) == [rs |-> rs, ip |-> a, ok |-> ok]

\* One assignment to u.prevIP: the value stored and how many updater calls
\* of the cycle had returned when it was made.
Assigned(v, n) == [val |-> v, at |-> n]

\* The calls of a cycle that wrote address a to every configured record
\* set, once each, in configuration order, all successful.
FullCalls(a) == [i \in 1..Len(records) |-> Call(records[i], a, TRUE)]

\* --------------------------------------------------------------- the TTL
NanosPerSecond == 1000000000
MinTTL == 60

\* float64 has 53 significant bits: for a whole number of seconds sec in
\* [2^e, 2^(e+1)) this is 2^(53-e), the reciprocal of half the spacing of
\* the float64 values next to sec.  Below 2^24 the spacing is too fine for a
\* nanosecond fraction to be rounded away (0 stands for "never").
Float64HalfUlpReciprocal(sec) ==
    IF sec < 16777216 THEN 0
    ELSE IF sec < 33554432 THEN 536870912
    ELSE IF sec < 67108864 THEN 268435456
    ELSE IF sec < 134217728 THEN 134217728
    ELSE IF sec < 268435456 THEN 67108864
    ELSE IF sec < 536870912 THEN 33554432
    ELSE IF sec < 1073741824 THEN 16777216
    ELSE 8388608

\* main.go:457  int64(d.Seconds()) for a positive Duration d.  Seconds() is
\* float64(sec) + float64(nsec)/1e9; the sum is rounded to 53 significant
\* bits and reaches sec + 1 exactly when (1e9 - nsec) * 2^(53-e) < 1e9.  The
\* conversion to int64 then drops the fraction.
DurationSecondsTrunc(d) ==
    LET r == Float64HalfUlpReciprocal(d.sec)
    IN  IF /\ r > 0
           /\ d.nsec > 0
           /\ NanosPerSecond - d.nsec <= (NanosPerSecond - 1) \div r
        THEN d.sec + 1
        ELSE d.sec

\* main.go:457-460  updateDNSRecord: ttl below 60 is raised to 60
TTLForNoFloor(d) == DurationSecondsTrunc(d)
TTLFor(d) ==
    LET ttl == DurationSecondsTrunc(d)
    IN  IF ttl < MinTTL THEN MinTTL ELSE ttl

\* main.go:104, 220  updateDns of the earlier revisions: no floor
LegacyTTLFor(d) == DurationSecondsTrunc(d)

\* ------------------------------------------------- pieces of checkAndUpdate
\* main.go:407  if ip == u.prevIP
IPUnchangedInverted(resolvedIP, prev) == resolvedIP # prev
IPUnchanged(resolvedIP, prev) == resolvedIP = prev

\* main.go:402-404  resolve error: return without touching u.prevIP
PrevIPAfterResolveErrorCleared(prev) == ""
PrevIPAfterResolveError(prev) == prev

\* main.go:417  u.prevIP = "" on the first failed update
PrevIPAfterUpdateErrorKeepsNew(prev, new) == new
PrevIPAfterUpdateErrorKeepsOld(prev, new) == prev
PrevIPAfterUpdateError(prev, new) == ""

\* main.go:422  u.prevIP = ip after the loop
PrevIPAfterAllUpdatedStale(prev, new) == prev
PrevIPAfterAllUpdated(prev, new) == new

\* main.go:383-385, 392-394  Run logs the cycle's error and keeps looping
RunAfterCycleErrorReturns == [pc |-> "returned", ret |-> "err"]
RunAfterCycleErrorRetries == [pc |-> "resolving", ret |-> "none"]
RunAfterCycleError == [pc |-> "select", ret |-> "none"]

\* main.go:382-385  Run calls checkAndUpdate once before it enters the
\* select loop: the first cycle does not wait for a tick.
RunEntryWaitsForTick == "select"
RunEntry == "resolving"

\* main.go:430-438  the lookup is bound to ctx
\* (http.NewRequestWithContext): once ctx is done, Do returns its error.
ResolveCanSucceedIgnoringContext(ctxDone) == TRUE
ResolveCanSucceed(ctxDone) == ~ctxDone

\* main.go:326-329  main exits 1 only when Run returned an error
ExitCodeForInverted(ret) == IF ret = "err" THEN 0 ELSE 1
ExitCodeFor(ret) == IF ret = "err" THEN 1 ELSE 0

\* ------------------------------------------------------------------- Init
Init ==
    /\ records \in RecordLists
    /\ interval \in Intervals
    /\ stable = ""
    /\ prevIP = ""
    /\ pc = "start"
    /\ ip = ""
    /\ idx = 1
    /\ cancelled = FALSE
    /\ tickPending = FALSE
    /\ retVal = "none"
    /\ exitCode = -1
    /\ provider = StaleProvider
    /\ cycle = 0
    /\ trigger = "none"
    /\ startedCancelled = FALSE
    /\ preIP = ""
    /\ resolved = "none"
    /\ calls = <<>>
    /\ last = [resolved |-> "none", ip |-> "", failed |-> FALSE]
    /\ lastWrite = <<>>
    /\ nOk = 0
    /\ assigns = <<>>
    /\ ttls = <<>>

\* Bookkeeping at the start of a checkAndUpdate call.
BeginCycle(how) ==
    /\ cycle' = cycle + 1
    /\ trigger' = how
    /\ startedCancelled' = cancelled
    /\ preIP' = prevIP
    /\ resolved' = "none"
    /\ calls' = <<>>
    /\ last' = [resolved |-> resolved, ip |-> ip, failed |-> AnyFailed(calls)]
    /\ assigns' = <<>>
    /\ ttls' = <<>>
    /\ UNCHANGED <<lastWrite, nOk>>

\* ------------------------------------------------------------ environment
\* The runtime timer delivers a tick; ticker.C holds at most one.
Tick ==
    /\ pc \in {"start", "resolving", "updating", "select"}
    /\ ~tickPending
    /\ tickPending' = TRUE
    /\ UNCHANGED <<records, interval, stable, prevIP, pc, ip, idx, cancelled,
                   retVal, exitCode, provider, hist>>

\* main.go:319-323  the signal goroutine: <-sigChan, log, cancel()
Signal ==
    /\ ~cancelled
    /\ stable = ""
    /\ pc # "exited"
    /\ cancelled' = TRUE
    /\ UNCHANGED <<records, interval, stable, prevIP, pc, ip, idx,
                   tickPending, retVal, exitCode, provider, hist>>

\* -------------------------------------------------------------------- Run
\* main.go:382-385  the initial checkAndUpdate, before the select loop
RunStart ==
    /\ pc = "start"
    /\ pc' = RunEntry
    /\ IF RunEntry = "resolving"
         THEN BeginCycle("initial")
         ELSE UNCHANGED hist
    /\ UNCHANGED <<records, interval, stable, prevIP, ip, idx, cancelled,
                   tickPending, retVal, exitCode, provider>>

\* main.go:389-390  case <-ctx.Done(): return nil
SelectDone ==
    /\ pc = "select"
    /\ cancelled
    /\ pc' = "returned"
    /\ retVal' = "nil"
    /\ UNCHANGED <<records, interval, stable, prevIP, ip, idx, cancelled,
                   tickPending, exitCode, provider, hist>>

\* main.go:391-392  case <-ticker.C: checkAndUpdate(ctx).  When both
\* channels are ready the select picks either case.
SelectTick ==
    /\ pc = "select"
    /\ tickPending
    /\ cycle < MaxCycles
    /\ tickPending' = FALSE
    /\ pc' = "resolving"
    /\ BeginCycle("tick")
    /\ UNCHANGED <<records, interval, stable, prevIP, ip, idx, cancelled,
                   retVal, exitCode, provider>>

\* main.go:400-404, 427-438  resolvePublicIP fails (always so on a cancelled
\* context); checkAndUpdate returns the error, Run logs it.
ResolveFail ==
    /\ pc = "resolving"
    /\ stable = ""
    /\ resolved' = "err"
    /\ prevIP' = PrevIPAfterResolveError(prevIP)
    /\ pc' = RunAfterCycleError.pc
    /\ retVal' = RunAfterCycleError.ret
    /\ UNCHANGED <<records, interval, stable, ip, idx, cancelled,
                   tickPending, exitCode, provider, cycle, trigger,
                   startedCancelled, preIP, calls, ttls, last, lastWrite,
                   nOk, assigns>>

\* main.go:401, 406-412, 441-450  resolvePublicIP returns the body a; the
\* cycle ends here when a equals u.prevIP, else the range loop starts.
ResolveOk(a) ==
    /\ pc = "resolving"
    /\ ResolveCanSucceed(cancelled)
    /\ stable \in {"", a}
    /\ resolved' = "ok"
    /\ nOk' = nOk + 1
    /\ ip' = a
    /\ idx' = 1
    /\ pc' = IF IPUnchanged(a, prevIP) THEN "select" ELSE "updating"
    /\ UNCHANGED <<records, interval, stable, prevIP, cancelled, tickPending,
                   retVal, exitCode, provider, cycle, trigger,
                   startedCancelled, preIP, calls, ttls, last, lastWrite,
                   assigns>>

\* main.go:415-416, 462-482  updateDNSRecord for records[idx] succeeds
UpdateOk ==
    /\ pc = "updating"
    /\ idx <= Len(records)
    /\ ~cancelled
    /\ calls' = Append(calls, Call(records[idx], ip, TRUE))
    /\ ttls' = Append(ttls, TTLFor(interval))
    /\ lastWrite' = calls'
    /\ provider' = [provider EXCEPT ![records[idx]] = ip]
    /\ idx' = idx + 1
    /\ UNCHANGED <<records, interval, stable, prevIP, pc, ip, cancelled,
                   tickPending, retVal, exitCode, cycle, trigger,
                   startedCancelled, preIP, resolved, last, nOk, assigns>>

\* main.go:416-419, 477-479  updateDNSRecord for records[idx] fails (always
\* so on a cancelled context): prevIP is reset and the cycle returns.
UpdateFail ==
    /\ pc = "updating"
    /\ idx <= Len(records)
    /\ stable = ""
    /\ calls' = Append(calls, Call(records[idx], ip, FALSE))
    /\ ttls' = Append(ttls, TTLFor(interval))
    /\ lastWrite' = calls'
    /\ prevIP' = PrevIPAfterUpdateError(prevIP, ip)
    /\ assigns' = Append(assigns, Assigned(prevIP', Len(calls')))
    /\ pc' = RunAfterCycleError.pc
    /\ retVal' = RunAfterCycleError.ret
    /\ UNCHANGED <<records, interval, stable, ip, idx, cancelled,
                   tickPending, exitCode, provider, cycle, trigger,
                   startedCancelled, preIP, resolved, last, nOk>>

\* main.go:420-423  the range loop is exhausted: u.prevIP = ip; return nil
Settle ==
    /\ pc = "updating"
    /\ idx > Len(records)
    /\ prevIP' = PrevIPAfterAllUpdated(prevIP, ip)
    /\ assigns' = Append(assigns, Assigned(prevIP', Len(calls)))
    /\ pc' = "select"
    /\ UNCHANGED <<records, interval, stable, ip, idx, cancelled,
                   tickPending, retVal, exitCode, provider, cycle, trigger,
                   startedCancelled, preIP, resolved, calls, ttls, last,
                   lastWrite, nOk>>

\* main.go:326-330  Run has returned; main exits
MainExit ==
    /\ pc = "returned"
    /\ pc' = "exited"
    /\ exitCode' = ExitCodeFor(retVal)
    /\ cancelled' = TRUE
    /\ UNCHANGED <<records, interval, stable, prevIP, ip, idx, tickPending,
                   retVal, provider, hist>>

Next ==
    \/ Tick
    \/ Signal
    \/ RunStart
    \/ SelectDone
    \/ SelectTick
    \/ ResolveFail
    \/ \E a \in IPs : ResolveOk(a)
    \/ UpdateOk
    \/ UpdateFail
    \/ Settle
    \/ MainExit

Spec == Init /\ [][Next]_vars

\* The steps of the Run goroutine and of main after Run returns.
RunStep ==
    \/ RunStart
    \/ SelectDone
    \/ SelectTick
    \/ ResolveFail
    \/ \E a \in IPs : ResolveOk(a)
    \/ UpdateOk
    \/ UpdateFail
    \/ Settle
    \/ MainExit

\* Scheduling of the running process: the Run goroutine keeps being
\* scheduled and every network call it waits for returns (weak fairness of
\* its steps); a select that finds ctx.Done() ready again and again picks
\* that case eventually, Go choosing uniformly at random among the ready
\* cases (strong fairness of SelectDone).  Nothing is assumed of the timer
\* or of the signal.
SpecFair == Spec /\ WF_vars(RunStep) /\ SF_vars(SelectDone)

\* No cycle is in progress: Run is waiting in the select or has returned
\* (the earlier loops: main is in time.Sleep).
BetweenCycles == pc \in {"select", "returned", "exited", "l_sleeping"}

TypeOK ==
    /\ records \in RecordLists
    /\ interval \in Intervals
    /\ prevIP \in IPs
    /\ pc \in {"start", "resolving", "updating", "select", "returned", "exited",
              "l_top", "l_resolving", "l_updating", "l_sleeping"}
    /\ ip \in IPs
    /\ idx \in 1..(Len(records) + 1)
    /\ cancelled \in BOOLEAN
    /\ tickPending \in BOOLEAN
    /\ retVal \in {"none", "nil", "err"}
    /\ exitCode \in {-1, 0, 1}
    /\ cycle \in 0..MaxCycles
    /\ resolved \in {"none", "ok", "err"}

\* The environment settles: from here on the resolver succeeds with the
\* non-empty address a, every update succeeds and no signal arrives.  It
\* settles while a further cycle can still start.
Stabilise(a) ==
    /\ stable = ""
    /\ ~cancelled
    /\ cycle < MaxCycles
    /\ a # ""
    /\ stable' = a
    /\ UNCHANGED <<records, interval, prevIP, pc, ip, idx, cancelled,
                   tickPending, retVal, exitCode, provider, hist>>

NextSettling == Next \/ \E a \in IPs : Stabilise(a)

\* Fair ticking: the timer keeps delivering ticks and the Run goroutine
\* keeps being scheduled, its network calls returning.
SpecConverge ==
    Init /\ [][NextSettling]_vars /\ WF_vars(Tick) /\ WF_vars(RunStep)

\* ====================================================================
\* The earlier polling loops of main (main.go:43-65 and main.go:160-182):
\* no DNSUpdater, no context, a blocking time.Sleep between cycles.  Both
\* revisions have the same loop; they differ only in how the resolver and
\* the record list are obtained.
\* ====================================================================

\* main.go:43, 160  var prevIp string, then the for loop is entered
LegacyInit ==
    /\ records \in RecordLists
    /\ interval \in Intervals
    /\ stable = ""
    /\ prevIP = ""
    /\ pc = "l_top"
    /\ ip = ""
    /\ idx = 1
    /\ cancelled = FALSE
    /\ tickPending = FALSE
    /\ retVal = "none"
    /\ exitCode = -1
    /\ provider = StaleProvider
    /\ cycle = 0
    /\ trigger = "none"
    /\ startedCancelled = FALSE
    /\ preIP = ""
    /\ resolved = "none"
    /\ calls = <<>>
    /\ last = [resolved |-> "none", ip |-> "", failed |-> FALSE]
    /\ lastWrite = <<>>
    /\ nOk = 0
    /\ assigns = <<>>
    /\ ttls = <<>>

\* main.go:44-45, 161-162  top of the for loop: the first iteration, or the
\* one reached by `continue` after a failed resolve, calls resolveOwnIp
\* without any sleep.
LegacyLoopTop ==
    /\ pc = "l_top"
    /\ cycle < MaxCycles
    /\ pc' = "l_resolving"
    /\ BeginCycle(IF cycle = 0 THEN "initial" ELSE "continue")
    /\ UNCHANGED <<records, interval, stable, prevIP, ip, idx, cancelled,
                   tickPending, retVal, exitCode, provider>>

\* main.go:63, 180  time.Sleep(interval) returns; next iteration
LegacySleepDone ==
    /\ pc = "l_sleeping"
    /\ cycle < MaxCycles
    /\ pc' = "l_resolving"
    /\ BeginCycle("tick")
    /\ UNCHANGED <<records, interval, stable, prevIP, ip, idx, cancelled,
                   tickPending, retVal, exitCode, provider>>

\* main.go:46-49, 163-166  resolveOwnIp failed: log, continue
LegacyResolveFail ==
    /\ pc = "l_resolving"
    /\ resolved' = "err"
    /\ pc' = "l_top"
    /\ UNCHANGED <<records, interval, stable, prevIP, ip, idx, cancelled,
                   tickPending, retVal, exitCode, provider, cycle, trigger,
                   startedCancelled, preIP, calls, ttls, last, lastWrite,
                   nOk, assigns>>

\* main.go:51-54, 168-171  resolveOwnIp returned a; when it differs from
\* prevIp it is stored at once, before any record set is updated.
LegacyResolveOk(a) ==
    /\ pc = "l_resolving"
    /\ resolved' = "ok"
    /\ nOk' = nOk + 1
    /\ ip' = a
    /\ idx' = 1
    /\ IF IPUnchanged(a, prevIP)
         THEN pc' = "l_sleeping" /\ prevIP' = prevIP /\ assigns' = assigns
         ELSE /\ pc' = "l_updating"
              /\ prevIP' = a
              /\ assigns' = Append(assigns, Assigned(a, 0))
    /\ UNCHANGED <<records, interval, stable, cancelled, tickPending, retVal,
                   exitCode, provider, cycle, trigger, startedCancelled,
                   preIP, calls, ttls, last, lastWrite>>

\* main.go:55-56, 96-114, 172-173, 212-230  updateDns returned true
LegacyUpdateOk ==
    /\ pc = "l_updating"
    /\ idx <= Len(records)
    /\ calls' = Append(calls, Call(records[idx], ip, TRUE))
    /\ ttls' = Append(ttls, LegacyTTLFor(interval))
    /\ lastWrite' = calls'
    /\ provider' = [provider EXCEPT ![records[idx]] = ip]
    /\ idx' = idx + 1
    /\ UNCHANGED <<records, interval, stable, prevIP, pc, ip, cancelled,
                   tickPending, retVal, exitCode, cycle, trigger,
                   startedCancelled, preIP, resolved, last, nOk, assigns>>

\* main.go:56-59, 173-176  updateDns returned false: prevIp = "", and the
\* range loop goes on with the next record set.
LegacyUpdateFail ==
    /\ pc = "l_updating"
    /\ idx <= Len(records)
    /\ calls' = Append(calls, Call(records[idx], ip, FALSE))
    /\ ttls' = Append(ttls, LegacyTTLFor(interval))
    /\ lastWrite' = calls'
    /\ prevIP' = PrevIPAfterUpdateError(prevIP, ip)
    /\ assigns' = Append(assigns, Assigned(prevIP', Len(calls')))
    /\ idx' = idx + 1
    /\ UNCHANGED <<records, interval, stable, pc, ip, cancelled, tickPending,
                   retVal, exitCode, provider, cycle, trigger,
                   startedCancelled, preIP, resolved, last, nOk>>

\* main.go:60-63, 177-180  range loop exhausted: go to sleep
LegacyLoopEnd ==
    /\ pc = "l_updating"
    /\ idx > Len(records)
    /\ pc' = "l_sleeping"
    /\ UNCHANGED <<records, interval, stable, prevIP, ip, idx, cancelled,
                   tickPending, retVal, exitCode, provider, hist>>

LegacyNext ==
    \/ LegacyLoopTop
    \/ LegacySleepDone
    \/ LegacyResolveFail
    \/ \E a \in IPs : LegacyResolveOk(a)
    \/ LegacyUpdateOk
    \/ LegacyUpdateFail
    \/ LegacyLoopEnd

SpecLegacy == LegacyInit /\ [][LegacyNext]_vars

\* ====================================================================
\* Properties of the reconciliation loop
\* ====================================================================

\* C1: between cycles, prevIP is either empty or the address that the most
\* recent cycle with updater calls wrote successfully to every configured
\* record set; it is never an address for which an update of that cycle
\* failed.
C1_PrevIPIsFullyPublished ==
    (BetweenCycles /\ prevIP # "") => lastWrite = FullCalls(prevIP)

C1_Witness ==
    /\ BetweenCycles
    /\ prevIP # ""
    /\ Len(records) = 2
    /\ cycle >= 2
    /\ lastWrite = FullCalls(prevIP)

\* C2: a cycle whose resolve succeeds with the address already in prevIP
\* makes no updater call and leaves prevIP as it was.
C2_UnchangedMakesNoCall ==
    (resolved = "ok" /\ ip = preIP) => (calls = <<>> /\ prevIP = preIP)

C2_Witness ==
    /\ BetweenCycles
    /\ resolved = "ok"
    /\ ip = preIP
    /\ ip # ""
    /\ records # <<>>
    /\ calls = <<>>

C4_AllSucceededPublishes ==
    (BetweenCycles /\ resolved = "ok" /\ ip # preIP /\ ~AnyFailed(calls))
        => (prevIP = ip /\ calls = FullCalls(ip))

C4_Witness ==
    /\ BetweenCycles
    /\ resolved = "ok"
    /\ ip # preIP
    /\ preIP # ""
    /\ ~AnyFailed(calls)
    /\ Len(records) = 2
    /\ prevIP = ip

\* C5 as stated: a cycle that resolves a new (non-empty) address and has a
\* failed update ends with prevIP different from the new address and equal
\* to its value before the cycle.
C5_Original ==
    (BetweenCycles /\ resolved = "ok" /\ ip # preIP /\ ip # ""
        /\ AnyFailed(calls))
        => (prevIP # ip /\ prevIP = preIP)

\* C5 amended: a cycle that resolves a new address and has a failed update
\* ends with prevIP empty, whatever it was before the cycle.
C5_FailedUpdateClearsPrevIP ==
    (BetweenCycles /\ resolved = "ok" /\ ip # preIP /\ AnyFailed(calls))
        => prevIP = ""

C5_Witness ==
    /\ BetweenCycles
    /\ resolved = "ok"
    /\ ip # preIP
    /\ preIP # ""
    /\ ip # ""
    /\ AnyFailed(calls)
    /\ Len(calls) = 2
    /\ prevIP = ""

\* C6: when a cycle had a failed update and the next cycle resolves the same
\* address, that next cycle calls the updater for every configured record
\* set.
C6_RetryCoversEveryRecord ==
    (BetweenCycles /\ last.resolved = "ok" /\ last.failed
        /\ resolved = "ok" /\ ip = last.ip)
        => \A i \in 1..Len(records) :
               \E j \in 1..Len(calls) :
                   calls[j].rs = records[i] /\ calls[j].ip = ip

\* C7: a cycle whose resolve fails leaves prevIP as it was and makes no
\* updater call.
C7_ResolveFailureKeepsState ==
    resolved = "err" => (prevIP = preIP /\ calls = <<>>)

C7_Witness ==
    /\ BetweenCycles
    /\ resolved = "err"
    /\ ~startedCancelled
    /\ preIP # ""
    /\ prevIP = preIP
    /\ records # <<>>

\* C8: the first cycle whose resolve succeeds calls the updater for the
\* configured record sets, whatever address it resolved and whatever the
\* provider holds.
C8_FirstResolveAlwaysUpdates ==
    (BetweenCycles /\ resolved = "ok" /\ nOk = 1 /\ records # <<>>)
        => calls # <<>>

\* C9: no reconciliation cycle is started by a tick taken after the context
\* was cancelled.
C9_NoCycleAfterCancel ==
    trigger = "tick" => ~startedCancelled

\* C10: a failed resolve or update never ends the process: Run returns only
\* once the context is cancelled and then returns nil, the process exits
\* only with code 0, and after a failed cycle with the context still live
\* Run is back in its select, ready for the next tick.
C10_FailuresNeverTerminate ==
    /\ pc \in {"returned", "exited"} => (cancelled /\ retVal = "nil")
    /\ pc # "returned" /\ pc # "exited" => retVal = "none"
    /\ exitCode \in {-1, 0}
    /\ (BetweenCycles /\ ~cancelled /\ (resolved = "err" \/ AnyFailed(calls)))
           => pc = "select"

C10_Witness ==
    /\ cycle >= 2
    /\ last.resolved = "err" \/ last.failed
    /\ resolved = "ok"
    /\ pc = "updating"
    /\ ~cancelled

\* C11: once the termination signal has cancelled the context, and every
\* network call in flight returns, Run eventually returns and the process
\* exits with code 0.
C11_CancelLeadsToExitZero ==
    cancelled ~> (pc = "exited" /\ retVal = "nil" /\ exitCode = 0)

C11_Witness ==
    /\ pc = "exited"
    /\ exitCode = 0
    /\ retVal = "nil"
    /\ cycle >= 2
    /\ calls # <<>>

\* C12: a lookup that returns an empty address is a resolution failure: the
\* empty value is never the result of a successful resolve, so it is never
\* compared with prevIP and never passed to the updater.
C12_BlankAddressRejected ==
    /\ resolved = "ok" => ip # ""
    /\ \A i \in 1..Len(calls) : calls[i].ip # ""

\* C13: the first cycle is started by Run itself, before the select is
\* entered and without consuming a tick; every later cycle is started by
\* taking one tick out of ticker.C.
C13_FirstCycleImmediateLaterByTick ==
    /\ [](cycle = 1 => trigger = "initial")
    /\ [](cycle >= 2 => trigger = "tick")
    /\ [](pc = "select" => cycle >= 1)
    /\ [][cycle' # cycle =>
            /\ cycle' = cycle + 1
            /\ IF cycle = 0
                 THEN pc = "start" /\ tickPending' = tickPending
                 ELSE pc = "select" /\ tickPending /\ ~tickPending']_vars

C13_Witness ==
    /\ cycle = 3
    /\ trigger = "tick"
    /\ pc = "resolving"
    /\ ~tickPending

C16_EveryRecordAttempted ==
    (BetweenCycles /\ resolved = "ok" /\ ip # preIP)
        => /\ Len(calls) = Len(records)
           /\ \A i \in 1..Len(calls) :
                  calls[i].rs = records[i] /\ calls[i].ip = ip

\* C17: with no record set configured, a cycle whose resolve succeeds makes
\* no updater call and ends with prevIP equal to the resolved address.
C17_EmptyListStillAdvances ==
    (records = <<>> /\ resolved = "ok")
        => /\ calls = <<>>
           /\ BetweenCycles => prevIP = ip

C17_Witness ==
    /\ records = <<>>
    /\ BetweenCycles
    /\ resolved = "ok"
    /\ ip # preIP
    /\ ip # ""
    /\ preIP # ""
    /\ prevIP = ip

\* C20: a cycle started after the context was cancelled fails at its
\* resolve: it calls no updater and leaves prevIP as it found it.
C20_CycleAfterCancelIsInert ==
    startedCancelled
        => (resolved # "ok" /\ calls = <<>> /\ prevIP = preIP
            /\ pc # "updating")

C20_Witness ==
    /\ startedCancelled
    /\ trigger = "tick"
    /\ resolved = "err"
    /\ preIP # ""
    /\ prevIP = preIP
    /\ records # <<>>

Converged ==
    /\ stable # ""
    /\ prevIP = stable
    /\ pc # "updating"
    /\ \A i \in 1..Len(records) : provider[records[i]] = stable

\* C19: once the resolver keeps returning one non-empty address and every
\* update succeeds, fair ticking leads to a state where prevIP and every
\* configured record set hold that address, and from then on no further
\* updater call is made.
C19_Convergence ==
    /\ (stable # "") ~> Converged
    /\ [][Converged =>
            /\ Converged'
            /\ provider' = provider
            /\ calls' = calls \/ calls' = <<>>]_vars

C19_Witness ==
    /\ Converged
    /\ pc = "select"
    /\ Len(records) = 2
    /\ last.failed
    /\ lastWrite = FullCalls(stable)
    /\ calls = FullCalls(stable)

====
